---- MODULE Spec2Model ----
(***************************************************************************)
(* Food-Suggester (src/app.py): the Flask handlers suggest, recipe and     *)
(* search_ingredients with their helpers ask_groq and get_image_for_query. *)
(*                                                                         *)
(* A text is a sequence of characters; a character is a one-character      *)
(* string, and a code point outside ASCII is written by its name           *)
(* ("U+2022" is the bullet).  The string functions of Python that the code *)
(* uses (split, strip, startswith, lower, in, re.sub) are operators on     *)
(* such sequences.  The two external services answer nondeterministically. *)
(***************************************************************************)
EXTENDS Naturals, Sequences, FiniteSets

VARIABLES
    GROQ_API_KEY,        \* TRUE: a real key is configured (app.py:15-22)
    UNSPLASH_ACCESS_KEY, \* TRUE: a real key is configured (app.py:16-25)
    pc,                  \* position of the current request
    handler,             \* "none", "suggest", "recipe", "search", "format"
    arg,                 \* the request's input text (form field, path or query parameter)
    response_from_groq,  \* text returned by ask_groq (suggest: line 111, recipe: line 138)
    raw_lines,           \* suggest, line 114
    dish_lines,          \* suggest, line 115
    dishes,              \* suggest, lines 118-121
    dishes_with_images,  \* suggest, line 123-126
    lookups,             \* outcome of each image lookup of the request, in order
    calls,               \* the calls of ask_groq and get_image_for_query, in order
    rendered             \* what the handler handed to render_template / jsonify

vars == <<GROQ_API_KEY, UNSPLASH_ACCESS_KEY, pc, handler, arg, response_from_groq,
          raw_lines, dish_lines, dishes, dishes_with_images, lookups, calls, rendered>>

----------------------------------------------------------------------------
(* Bounds of the model. *)

\* longest LLM text, in pieces of LLMPieces
MaxPieces == 3
\* longest text of an exception, and longest recipe text, in pieces of LLMPieces
MaxShortPieces == 2
\* longest text handed to the re.sub of ask_groq alone, in pieces of BoldPieces
MaxBoldPieces == 4
\* longest autocomplete query, in characters of QueryChars
MaxQueryLen == 2

----------------------------------------------------------------------------
(* Python's string functions. *)

\* characters str.strip() removes (those a TLA+ string can name)
Whitespace == {" ", "\t", "\n", "\r", "\f"}

\* the bullet markers of line 115: the tuple of startswith
BulletMarkers == {"U+2022", "-", "*"}

\* the characters of strip('U+2022-* ') at line 119
BulletStripChars == {"U+2022", "-", "*", " "}

None == <<"None">>

RECURSIVE lstrip(_, _)
lstrip(s, chars) ==
    IF s /= <<>> /\ Head(s) \in chars THEN lstrip(Tail(s), chars) ELSE s

RECURSIVE rstrip(_, _)
rstrip(s, chars) ==
    IF s /= <<>> /\ s[Len(s)] \in chars
    THEN rstrip(SubSeq(s, 1, Len(s) - 1), chars)
    ELSE s

\* str.strip(chars)
strip(s, chars) == rstrip(lstrip(s, chars), chars)

\* str.split('\n'): never empty, "" gives [""]
RECURSIVE split(_)
split(s) ==
    LET idx == {i \in 1..Len(s) : s[i] = "\n"}
    IN  IF idx = {} THEN <<s>>
        ELSE LET i == CHOOSE j \in idx : \A k \in idx : j <= k
             IN  <<SubSeq(s, 1, i - 1)>> \o split(SubSeq(s, i + 1, Len(s)))

\* str.startswith(tuple of one-character prefixes)
startswith(s, prefixes) == s /= <<>> /\ Head(s) \in prefixes

\* pat occurs in s at position i
MatchAt(s, i, pat) ==
    /\ i + Len(pat) - 1 <= Len(s)
    /\ SubSeq(s, i, i + Len(pat) - 1) = pat

\* Python's `needle in haystack`
contains(haystack, needle) ==
    LET h == haystack
        n == needle
    IN  \E i \in 1..(Len(h) + 1) : MatchAt(h, i, n)

UpperCase ==
    <<"A", "B", "C", "D", "E", "F", "G", "H", "I", "J", "K", "L", "M",
      "N", "O", "P", "Q", "R", "S", "T", "U", "V", "W", "X", "Y", "Z">>

LowerCase ==
    <<"a", "b", "c", "d", "e", "f", "g", "h", "i", "j", "k", "l", "m",
      "n", "o", "p", "q", "r", "s", "t", "u", "v", "w", "x", "y", "z">>

\* the lower-case letter of each upper-case letter
LowerOf ==
    [c \in {UpperCase[k] : k \in 1..Len(UpperCase)} |->
        LowerCase[CHOOSE k \in 1..Len(UpperCase) : UpperCase[k] = c]]

\* str.lower()
lower(s) == [i \in 1..Len(s) |-> IF s[i] \in DOMAIN LowerOf THEN LowerOf[s[i]] ELSE s[i]]

StrongOpen == <<"<", "s", "t", "r", "o", "n", "g", ">">>

StrongClose == <<"<", "/", "s", "t", "r", "o", "n", "g", ">">>

BoldMarker == <<"*", "*">>

\* re.sub(r'\*\*(.*?)\*\*', r'<strong>\1</strong>', s) of line 53: leftmost match
\* first, the group as short as possible, and `.` does not match a newline
RECURSIVE bold_to_strong(_)
bold_to_strong(s) ==
    IF s = <<>> THEN <<>>
    ELSE IF MatchAt(s, 1, BoldMarker)
         /\ \E j \in 3..Len(s) :
                /\ MatchAt(s, j, BoldMarker)
                /\ \A k \in 3..(j - 1) : s[k] /= "\n"
    THEN LET j == CHOOSE j \in 3..Len(s) :
                    /\ MatchAt(s, j, BoldMarker)
                    /\ \A i \in 3..(j - 1) : ~MatchAt(s, i, BoldMarker)
         IN  StrongOpen \o SubSeq(s, 3, j - 1) \o StrongClose
                 \o bold_to_strong(SubSeq(s, j + 2, Len(s)))
    ELSE <<Head(s)>> \o bold_to_strong(Tail(s))

\* re.sub(r'</?strong>', '', line) of line 119: one pass, left to right
RECURSIVE strip_strong(_)
strip_strong(s) ==
    IF s = <<>> THEN <<>>
    ELSE IF MatchAt(s, 1, StrongOpen)
    THEN strip_strong(SubSeq(s, Len(StrongOpen) + 1, Len(s)))
    ELSE IF MatchAt(s, 1, StrongClose)
    THEN strip_strong(SubSeq(s, Len(StrongClose) + 1, Len(s)))
    ELSE <<Head(s)>> \o strip_strong(Tail(s))

----------------------------------------------------------------------------
(* The inputs of the model: what the client and the two services can send. *)

\* all concatenations of at most n pieces of P
RECURSIVE Concats(_, _)
Concats(P, n) ==
    IF n = 0 THEN {<<>>}
    ELSE LET shorter == Concats(P, n - 1)
         IN  shorter \cup {t \o p : t \in shorter, p \in P}

\* fragments of an LLM answer: a bullet marker, blanks, a line break, two marked
\* names, a bold span and a tag written inside a tag
LLMPieces ==
    { <<"-">>, <<" ">>, <<"\t">>, <<"\n">>,
      <<"U+2022", " ", "b">>, <<"*", "a">>,
      <<"*", "*", "a", "*", "*">>,
      <<"<", "s", "t", "r">> \o StrongOpen \o <<"o", "n", "g", ">">> }

LLMTexts == Concats(LLMPieces, MaxPieces)

ShortTexts == Concats(LLMPieces, MaxShortPieces)

\* str(e) of the TypeError re.sub raises on a completion whose content is None
TypeErrorText ==
    <<"e", "x", "p", "e", "c", "t", "e", "d", " ", "s", "t", "r", "i", "n", "g", " ",
      "o", "r", " ", "b", "y", "t", "e", "s", "-", "l", "i", "k", "e", " ", "o", "b",
      "j", "e", "c", "t">>

\* what the Groq client does with one request (lines 38-46)
LLMOutcomes ==
    {[kind |-> "completion", text |-> t] : t \in LLMTexts}
        \cup {[kind |-> "exception", text |-> t] : t \in ShortTexts \cup {TypeErrorText}}
        \cup {[kind |-> "no_choices", text |-> <<>>]}

\* the same, for the recipe request
RecipeLLMOutcomes ==
    {[kind |-> k, text |-> t] : k \in {"completion", "exception"}, t \in ShortTexts}
        \cup {[kind |-> "no_choices", text |-> <<>>]}

\* the client is not built when the key is missing (line 34)
LLMNotCalled == [kind |-> "not_called", text |-> <<>>]

UrlSmall == <<"u", "/", "s">>

UrlThumb == <<"u", "/", "t">>

\* what Unsplash does with one request (lines 80-92)
ImageResponses ==
    { [kind |-> "request_exception", small |-> None, thumb |-> None],
      [kind |-> "malformed", small |-> None, thumb |-> None],
      [kind |-> "no_results", small |-> None, thumb |-> None],
      [kind |-> "ok", small |-> UrlSmall, thumb |-> UrlThumb] }

\* no request is sent when the key is missing (line 67)
ImageNotRequested == [kind |-> "not_requested", small |-> None, thumb |-> None]

\* the form field `ingredients` of POST /suggest
IngredientTexts ==
    { <<>>, <<"e", "g", "g", ",", " ", "r", "i", "c", "e">> }

\* the path parameter of GET /recipe/<dish>
DishTexts ==
    { <<"F", "r", "i", "e", "d", " ", "R", "i", "c", "e">> }

QueryChars == {" ", "\t", "p", "P", "e", "a", "r", "z"}

QueryPieces == {<<c>> : c \in QueryChars}

\* the parameter `query` of GET /search_ingredients
QueryTexts == Concats(QueryPieces, MaxQueryLen)

\* fragments of a text with bold markers
BoldPieces == { <<"*">>, <<"*", "*">>, <<"a">>, <<"\n">>, <<" ">> }

BoldTexts == Concats(BoldPieces, MaxBoldPieces)

----------------------------------------------------------------------------
(* The fixed texts of app.py. *)

MsgNotConfigured ==
    <<"S", "o", "r", "r", "y", ",", " ", "G", "r", "o", "q", " ", "A", "P", "I", " ",
      "k", "e", "y", " ", "i", "s", " ", "n", "o", "t", " ", "c", "o", "n", "f", "i",
      "g", "u", "r", "e", "d", ".", " ", "P", "l", "e", "a", "s", "e", " ", "s", "e",
      "t", " ", "G", "R", "O", "Q", "_", "A", "P", "I", "_", "K", "E", "Y", " ", "e",
      "n", "v", "i", "r", "o", "n", "m", "e", "n", "t", " ", "v", "a", "r", "i", "a",
      "b", "l", "e", ".">>

MsgNoChoices ==
    <<"S", "o", "r", "r", "y", ",", " ", "I", " ", "c", "o", "u", "l", "d", "n", "'",
      "t", " ", "c", "o", "o", "k", " ", "a", "n", "y", "t", "h", "i", "n", "g", " ",
      "w", "i", "t", "h", " ", "t", "h", "a", "t", " ", "i", "n", "p", "u", "t", " ",
      "U+1F605">>

MsgWentWrong ==
    <<"S", "o", "m", "e", "t", "h", "i", "n", "g", " ", "w", "e", "n", "t", " ", "w",
      "r", "o", "n", "g", " ", "w", "h", "i", "l", "e", " ", "t", "a", "l", "k", "i",
      "n", "g", " ", "t", "o", " ", "t", "h", "e", " ", "r", "e", "c", "i", "p", "e",
      " ", "b", "o", "t", " ", "U+1F4A5", ":", " ">>

SuggestPromptHead ==
    <<"S", "u", "g", "g", "e", "s", "t", " ", "5", " ", "d", "i", "s", "h", "e", "s",
      " ", "I", " ", "c", "a", "n", " ", "m", "a", "k", "e", " ", "u", "s", "i", "n",
      "g", ":", " ">>

SuggestPromptTail ==
    <<".", " ", "R", "e", "t", "u", "r", "n", " ", "o", "n", "l", "y", " ", "t", "h",
      "e", " ", "n", "a", "m", "e", "s", " ", "a", "s", " ", "a", " ", "b", "u", "l",
      "l", "e", "t", " ", "l", "i", "s", "t", ".">>

RecipePromptHead ==
    <<"G", "i", "v", "e", " ", "a", " ", "p", "r", "o", "p", "e", "r", " ", "r", "e",
      "c", "i", "p", "e", " ", "f", "o", "r", " ">>

RecipePromptTail ==
    <<" ", "w", "i", "t", "h", " ", "i", "n", "g", "r", "e", "d", "i", "e", "n", "t",
      "s", ",", " ", "s", "t", "e", "p", "s", ",", " ", "a", "n", "d", " ", "t", "i",
      "p", "s", ".", " ", "U", "s", "e", " ", "*", "*", "d", "o", "u", "b", "l", "e",
      " ", "a", "s", "t", "e", "r", "i", "s", "k", "s", "*", "*", " ", "t", "o", " ",
      "b", "o", "l", "d", " ", "i", "m", "p", "o", "r", "t", "a", "n", "t", " ", "s",
      "e", "c", "t", "i", "o", "n", " ", "h", "e", "a", "d", "e", "r", "s", " ", "(",
      "e", ".", "g", ".", ",", " ", "*", "*", "I", "n", "g", "r", "e", "d", "i", "e",
      "n", "t", "s", ":", "*", "*", ",", " ", "*", "*", "S", "t", "e", "p", "s", ":",
      "*", "*", ",", " ", "*", "*", "T", "i", "p", "s", ":", "*", "*", ")", " ", "a",
      "n", "d", " ", "d", "i", "s", "h", " ", "n", "a", "m", "e", "s", " ", "i", "f",
      " ", "r", "e", "p", "e", "a", "t", "e", "d", ".">>

PlaceholderImage ==
    <<"/", "s", "t", "a", "t", "i", "c", "/", "p", "l", "a", "c", "e", "h", "o", "l",
      "d", "e", "r", "_", "i", "n", "g", "r", "e", "d", "i", "e", "n", "t", ".", "p",
      "n", "g">>

all_possible_ingredients ==
    <<
      <<"c", "h", "i", "c", "k", "e", "n">>,
      <<"r", "i", "c", "e">>,
      <<"t", "o", "m", "a", "t", "o">>,
      <<"o", "n", "i", "o", "n">>,
      <<"g", "a", "r", "l", "i", "c">>,
      <<"c", "h", "e", "e", "s", "e">>,
      <<"m", "i", "l", "k">>,
      <<"e", "g", "g", "s">>,
      <<"f", "l", "o", "u", "r">>,
      <<"s", "u", "g", "a", "r">>,
      <<"s", "a", "l", "t">>,
      <<"p", "e", "p", "p", "e", "r">>,
      <<"b", "u", "t", "t", "e", "r">>,
      <<"o", "i", "l">>,
      <<"p", "o", "t", "a", "t", "o">>,
      <<"c", "a", "r", "r", "o", "t">>,
      <<"s", "p", "i", "n", "a", "c", "h">>,
      <<"b", "r", "o", "c", "c", "o", "l", "i">>,
      <<"b", "e", "e", "f">>,
      <<"p", "o", "r", "k">>,
      <<"f", "i", "s", "h">>,
      <<"s", "h", "r", "i", "m", "p">>,
      <<"p", "a", "s", "t", "a">>,
      <<"b", "r", "e", "a", "d">>,
      <<"l", "e", "m", "o", "n">>,
      <<"l", "i", "m", "e">>,
      <<"g", "i", "n", "g", "e", "r">>,
      <<"c", "h", "i", "l", "l", "i">>,
      <<"c", "u", "m", "i", "n">>,
      <<"c", "o", "r", "i", "a", "n", "d", "e", "r">>,
      <<"p", "a", "p", "r", "i", "k", "a">>,
      <<"c", "r", "e", "a", "m">>,
      <<"y", "o", "g", "u", "r", "t">>,
      <<"m", "u", "s", "h", "r", "o", "o", "m", "s">>,
      <<"b", "e", "l", "l", " ", "p", "e", "p", "p", "e", "r">>,
      <<"c", "u", "c", "u", "m", "b", "e", "r">>,
      <<"a", "v", "o", "c", "a", "d", "o">>,
      <<"p", "a", "n", "e", "e", "r">>,
      <<"p", "e", "a", "s">>,
      <<"a", "p", "p", "l", "e">>,
      <<"b", "a", "n", "a", "n", "a">>,
      <<"o", "r", "a", "n", "g", "e">>,
      <<"g", "r", "a", "p", "e">>,
      <<"s", "t", "r", "a", "w", "b", "e", "r", "r", "y">>,
      <<"b", "l", "u", "e", "b", "e", "r", "r", "y">>,
      <<"m", "a", "n", "g", "o">>,
      <<"p", "i", "n", "e", "a", "p", "p", "l", "e">>,
      <<"l", "e", "t", "t", "u", "c", "e">>,
      <<"c", "a", "b", "b", "a", "g", "e">>,
      <<"z", "u", "c", "c", "h", "i", "n", "i">>,
      <<"e", "g", "g", "p", "l", "a", "n", "t">>,
      <<"p", "e", "a", "s">>,
      <<"b", "e", "a", "n", "s">>,
      <<"l", "e", "n", "t", "i", "l", "s">>,
      <<"q", "u", "i", "n", "o", "a">>,
      <<"o", "a", "t", "s">>,
      <<"h", "o", "n", "e", "y">>,
      <<"m", "a", "p", "l", "e", " ", "s", "y", "r", "u", "p">>,
      <<"c", "h", "o", "c", "o", "l", "a", "t", "e">>,
      <<"c", "o", "c", "o", "a", " ", "p", "o", "w", "d", "e", "r">>,
      <<"v", "a", "n", "i", "l", "l", "a", " ", "e", "x", "t", "r", "a", "c", "t">>,
      <<"a", "l", "m", "o", "n", "d", "s">>,
      <<"w", "a", "l", "n", "u", "t", "s">>,
      <<"c", "a", "s", "h", "e", "w", "s">>,
      <<"p", "e", "a", "n", "u", "t", "s">>,
      <<"o", "l", "i", "v", "e", "s">>,
      <<"o", "l", "i", "v", "e", " ", "o", "i", "l">>,
      <<"v", "i", "n", "e", "g", "a", "r">>,
      <<"m", "u", "s", "t", "a", "r", "d">>,
      <<"k", "e", "t", "c", "h", "u", "p">>,
      <<"m", "a", "y", "o", "n", "n", "a", "i", "s", "e">>,
      <<"s", "o", "y", " ", "s", "a", "u", "c", "e">>,
      <<"t", "e", "r", "i", "y", "a", "k", "i", " ", "s", "a", "u", "c", "e">>,
      <<"s", "r", "i", "r", "a", "c", "h", "a">>,
      <<"b", "a", "s", "i", "l">>,
      <<"o", "r", "e", "g", "a", "n", "o">>,
      <<"t", "h", "y", "m", "e">>,
      <<"r", "o", "s", "e", "m", "a", "r", "y">>,
      <<"p", "a", "r", "s", "l", "e", "y">>,
      <<"d", "i", "l", "l">>,
      <<"m", "i", "n", "t">>,
      <<"c", "i", "n", "n", "a", "m", "o", "n">>,
      <<"n", "u", "t", "m", "e", "g">>,
      <<"c", "l", "o", "v", "e", "s">>,
      <<"c", "a", "r", "d", "a", "m", "o", "m">>,
      <<"t", "u", "r", "m", "e", "r", "i", "c">>,
      <<"b", "a", "y", " ", "l", "e", "a", "f">>,
      <<"c", "o", "c", "o", "n", "u", "t", " ", "m", "i", "l", "k">>,
      <<"t", "o", "f", "u">>,
      <<"t", "e", "m", "p", "e", "h">>
    >>

----------------------------------------------------------------------------
(* ask_groq and get_image_for_query.  A call returns a value or raises. *)

Return(v) == [raised |-> FALSE, value |-> v]

Raise == [raised |-> TRUE, value |-> None]

\* ask_groq without the try/except of lines 37 and 57-59
ask_groq_uncaught(prompt, llm) ==
    IF ~GROQ_API_KEY THEN Return(MsgNotConfigured)
    ELSE IF llm.kind = "completion" THEN Return(bold_to_strong(llm.text))
    ELSE IF llm.kind = "exception" THEN Raise
    ELSE Return(MsgNoChoices)

\* lines 29-59
ask_groq(prompt, llm) ==
    IF ~GROQ_API_KEY THEN Return(MsgNotConfigured)
    ELSE IF llm.kind = "completion" THEN Return(bold_to_strong(llm.text))
    ELSE IF llm.kind = "exception" THEN Return(MsgWentWrong \o llm.text)
    ELSE Return(MsgNoChoices)

\* get_image_for_query without the handler of lines 90-92
get_image_for_query_uncaught(query, is_ingredient, resp) ==
    IF ~UNSPLASH_ACCESS_KEY THEN Return(None)
    ELSE IF resp.kind = "ok"
    THEN Return(IF is_ingredient THEN resp.thumb ELSE resp.small)
    ELSE IF resp.kind = "malformed" THEN Raise
    ELSE Return(None)

\* lines 62-92
get_image_for_query(query, is_ingredient, resp) ==
    IF ~UNSPLASH_ACCESS_KEY THEN Return(None)
    ELSE IF resp.kind = "ok"
    THEN Return(IF is_ingredient THEN resp.thumb ELSE resp.small)
    ELSE Return(None)

AskCall(prompt) == [fn |-> "ask_groq", text |-> prompt]

ImageCall(query, is_ingredient) ==
    [fn |-> "get_image_for_query", text |-> query, is_ingredient |-> is_ingredient]

----------------------------------------------------------------------------
(* suggest: lines 102-128. *)

\* line 110
suggest_prompt(ingredients_str) ==
    SuggestPromptHead \o ingredients_str \o SuggestPromptTail

\* line 115 without its strip()
is_dish_line_unstripped(line) == startswith(line, BulletMarkers)

\* the condition of line 115
is_dish_line(line) == startswith(strip(line, Whitespace), BulletMarkers)

\* line 119
clean_dish(line) ==
    strip(strip(strip_strong(line), BulletStripChars), Whitespace)

\* lines 114-115
select_dish_lines(text) == SelectSeq(split(text), is_dish_line)

\* lines 114-121
extract_dishes(text) ==
    LET kept == select_dish_lines(text)
    IN  [i \in 1..Len(kept) |-> clean_dish(kept[i])]

\* line 125 in ingredient mode
suggest_image_call_ingredient(dish_name) == ImageCall(dish_name, TRUE)

\* line 125: the lookup of one dish
suggest_image_call(dish_name) == ImageCall(dish_name, FALSE)

Init ==
    /\ GROQ_API_KEY \in BOOLEAN
    /\ UNSPLASH_ACCESS_KEY \in BOOLEAN
    /\ pc = "idle"
    /\ handler = "none"
    /\ arg = <<>>
    /\ response_from_groq = <<>>
    /\ raw_lines = <<>>
    /\ dish_lines = <<>>
    /\ dishes = <<>>
    /\ dishes_with_images = <<>>
    /\ lookups = <<>>
    /\ calls = <<>>
    /\ rendered = <<>>

keys == <<GROQ_API_KEY, UNSPLASH_ACCESS_KEY>>

locals == <<response_from_groq, raw_lines, dish_lines, dishes, dishes_with_images>>

\* line 108
SuggestRequest(ingredients_str) ==
    /\ pc = "idle"
    /\ handler = "none"
    /\ handler' = "suggest"
    /\ arg' = ingredients_str
    /\ pc' = "ask"
    /\ UNCHANGED <<keys, locals, lookups, calls, rendered>>

\* lines 110-123
SuggestAskGroq(llm) ==
    /\ pc = "ask"
    /\ handler = "suggest"
    /\ \E prompt \in {suggest_prompt(arg)} :
         \E r \in {ask_groq(prompt, llm)} :
           /\ calls' = Append(calls, AskCall(prompt))
           /\ IF r.raised
              THEN /\ pc' = "raised"
                   /\ UNCHANGED locals
              ELSE /\ pc' = "images"
                   /\ response_from_groq' = r.value
                   /\ raw_lines' = split(r.value)
                   /\ dish_lines' = select_dish_lines(r.value)
                   /\ dishes' = extract_dishes(r.value)
                   /\ dishes_with_images' = <<>>
    /\ UNCHANGED <<keys, handler, arg, lookups, rendered>>

\* lines 124-126: one turn of the loop
SuggestImage(resp) ==
    /\ pc = "images"
    /\ handler = "suggest"
    /\ Len(dishes_with_images) < Len(dishes)
    /\ LET dish_name == dishes[Len(dishes_with_images) + 1]
           call == suggest_image_call(dish_name)
           r == get_image_for_query(call.text, call.is_ingredient, resp)
       IN  /\ calls' = Append(calls, call)
           /\ lookups' = Append(lookups, resp)
           /\ IF r.raised
              THEN /\ pc' = "raised"
                   /\ UNCHANGED dishes_with_images
              ELSE /\ pc' = "images"
                   /\ dishes_with_images' =
                          Append(dishes_with_images,
                                 [name |-> dish_name, image_url |-> r.value])
    /\ UNCHANGED <<keys, handler, arg, response_from_groq, raw_lines, dish_lines,
                   dishes, rendered>>

\* line 128
SuggestRender ==
    /\ pc = "images"
    /\ handler = "suggest"
    /\ Len(dishes_with_images) = Len(dishes)
    /\ rendered' = [template |-> "suggestions.html",
                    dishes |-> dishes_with_images,
                    ingredients |-> arg]
    /\ pc' = "done"
    /\ UNCHANGED <<keys, handler, arg, locals, lookups, calls>>

----------------------------------------------------------------------------
(* recipe: lines 131-142. *)

\* line 137
recipe_prompt(dish) == RecipePromptHead \o dish \o RecipePromptTail

\* line 140: the lookup of the dish
recipe_image_call(dish) == ImageCall(dish, FALSE)

\* the path parameter is bound
RecipeRequest(dish) ==
    /\ pc = "idle"
    /\ handler = "none"
    /\ handler' = "recipe"
    /\ arg' = dish
    /\ pc' = "ask"
    /\ UNCHANGED <<keys, locals, lookups, calls, rendered>>

\* lines 137-138
RecipeAskGroq(llm) ==
    /\ pc = "ask"
    /\ handler = "recipe"
    /\ \E prompt \in {recipe_prompt(arg)} :
         \E r \in {ask_groq(prompt, llm)} :
           /\ calls' = Append(calls, AskCall(prompt))
           /\ IF r.raised
              THEN /\ pc' = "raised"
                   /\ UNCHANGED response_from_groq
              ELSE /\ pc' = "image"
                   /\ response_from_groq' = r.value
    /\ UNCHANGED <<keys, handler, arg, raw_lines, dish_lines, dishes,
                   dishes_with_images, lookups, rendered>>

\* lines 140-142
RecipeImage(resp) ==
    /\ pc = "image"
    /\ handler = "recipe"
    /\ LET call == recipe_image_call(arg)
           r == get_image_for_query(call.text, call.is_ingredient, resp)
       IN  /\ calls' = Append(calls, call)
           /\ lookups' = Append(lookups, resp)
           /\ IF r.raised
              THEN /\ pc' = "raised"
                   /\ UNCHANGED rendered
              ELSE /\ pc' = "done"
                   /\ rendered' = [template |-> "recipe.html",
                                   dish |-> arg,
                                   recipe |-> response_from_groq,
                                   image_url |-> r.value]
    /\ UNCHANGED <<keys, handler, arg, locals>>

----------------------------------------------------------------------------
(* search_ingredients: lines 145-185. *)

\* line 151
search_query(query_raw) == strip(query_raw, Whitespace)

\* lines 153 and 173-175 without the two lower()
filter_ingredients_case_sensitive(query) ==
    IF query = <<>> THEN <<>>
    ELSE LET q == query
         IN  SelectSeq(all_possible_ingredients, LAMBDA item : contains(item, q))

\* lines 153 and 173-175
filter_ingredients(query) ==
    IF query = <<>> THEN <<>>
    ELSE LET q == lower(query)
         IN  SelectSeq(all_possible_ingredients,
                       LAMBDA item : contains(lower(item), q))

\* line 183
image_or_placeholder(image_url) ==
    IF image_url /= None /\ image_url /= <<>> THEN image_url ELSE PlaceholderImage

\* the answer to the i-th lookup of a request whose lookups are answered in turn
\* by answers[1] and answers[2]
AnswerOf(answers, i) == answers[2 - (i % 2)]

\* lines 151-185, the loop of lines 178-184 included
SearchIngredients(query_raw, answers) ==
    /\ pc = "idle"
    /\ handler = "none"
    /\ handler' = "search"
    /\ arg' = query_raw
    /\ \E filtered_ingredients \in {filter_ingredients(search_query(query_raw))} :
         \E r \in {[i \in 1..Len(filtered_ingredients) |->
                      get_image_for_query(filtered_ingredients[i], TRUE,
                                          AnswerOf(answers, i))]} :
            /\ calls' = [i \in 1..Len(r) |-> ImageCall(filtered_ingredients[i], TRUE)]
            /\ lookups' = [i \in 1..Len(r) |-> AnswerOf(answers, i)]
            /\ IF \E i \in 1..Len(r) : r[i].raised
               THEN /\ pc' = "raised"
                    /\ UNCHANGED rendered
               ELSE /\ pc' = "done"
                    /\ rendered' =
                           [i \in 1..Len(r) |->
                               [name |-> filtered_ingredients[i],
                                image |-> image_or_placeholder(r[i].value)]]
    /\ UNCHANGED <<keys, locals>>

----------------------------------------------------------------------------
(* The re.sub of line 53 alone, on texts with bold markers. *)

InitBold ==
    /\ GROQ_API_KEY = TRUE
    /\ UNSPLASH_ACCESS_KEY = TRUE
    /\ pc = "idle"
    /\ handler = "format"
    /\ arg \in BoldTexts
    /\ response_from_groq = <<>>
    /\ raw_lines = <<>>
    /\ dish_lines = <<>>
    /\ dishes = <<>>
    /\ dishes_with_images = <<>>
    /\ lookups = <<>>
    /\ calls = <<>>
    /\ rendered = <<>>

\* line 53
FormatBold ==
    /\ pc = "idle"
    /\ handler = "format"
    /\ response_from_groq' = bold_to_strong(arg)
    /\ pc' = "done"
    /\ UNCHANGED <<keys, handler, arg, raw_lines, dish_lines, dishes,
                   dishes_with_images, lookups, calls, rendered>>

NextBold == FormatBold

SpecBold == InitBold /\ [][NextBold]_vars

----------------------------------------------------------------------------
(* The server: one request at a time. *)

\* the request is over: nothing but the keys outlives it
Respond ==
    /\ pc \in {"done", "raised"}
    /\ pc' = "idle"
    /\ handler' = "none"
    /\ arg' = <<>>
    /\ response_from_groq' = <<>>
    /\ raw_lines' = <<>>
    /\ dish_lines' = <<>>
    /\ dishes' = <<>>
    /\ dishes_with_images' = <<>>
    /\ lookups' = <<>>
    /\ calls' = <<>>
    /\ rendered' = <<>>
    /\ UNCHANGED keys

\* the answers to the lookups of one autocomplete request
ImageAnswerPairs ==
    IF UNSPLASH_ACCESS_KEY
    THEN ImageResponses \X ImageResponses
    ELSE {<<ImageNotRequested, ImageNotRequested>>}

LLMChoices == IF GROQ_API_KEY THEN LLMOutcomes ELSE {LLMNotCalled}

RecipeLLMChoices == IF GROQ_API_KEY THEN RecipeLLMOutcomes ELSE {LLMNotCalled}

ImageChoices == IF UNSPLASH_ACCESS_KEY THEN ImageResponses ELSE {ImageNotRequested}

Next ==
    \/ \E ingredients_str \in IngredientTexts : SuggestRequest(ingredients_str)
    \/ /\ pc = "ask"
       /\ handler = "suggest"
       /\ \E llm \in LLMChoices : SuggestAskGroq(llm)
    \/ \E resp \in ImageChoices : SuggestImage(resp)
    \/ SuggestRender
    \/ \E dish \in DishTexts : RecipeRequest(dish)
    \/ /\ pc = "ask"
       /\ handler = "recipe"
       /\ \E llm \in RecipeLLMChoices : RecipeAskGroq(llm)
    \/ \E resp \in ImageChoices : RecipeImage(resp)
    \/ /\ pc = "idle"
       /\ \E query_raw \in QueryTexts :
             \E answers \in ImageAnswerPairs : SearchIngredients(query_raw, answers)
    \/ Respond

Spec == Init /\ [][Next]_vars

----------------------------------------------------------------------------
(* The claims. *)

SuggestDone == handler = "suggest" /\ pc = "done"

\* the names of a sequence of {name, ...} records
NamesOf(records) == [i \in 1..Len(records) |-> records[i].name]

\* where the bullet lines of a text start: the lines whose first character after
\* leading blanks is a bullet marker
BulletLineStarts(text) ==
    {i \in 1..Len(text) :
        /\ i = 1 \/ text[i - 1] = "\n"
        /\ \E j \in i..Len(text) :
              /\ text[j] \in BulletMarkers
              /\ \A k \in i..(j - 1) : text[k] \in Whitespace \ {"\n"}}

HasTag(s) == contains(s, StrongOpen) \/ contains(s, StrongClose)

\* C1: suggest never raises, whatever the LLM client does (no key, an exception, no
\* choices, a completion); it renders a sequence of {name, image_url} records whose
\* names are those extracted from the text ask_groq returned, and an empty sequence
\* when the LLM key is not configured.
C1_SuggestNeverRaises ==
    handler = "suggest" =>
        /\ pc /= "raised"
        /\ pc = "done" =>
              /\ \A i \in 1..Len(rendered.dishes) :
                    DOMAIN rendered.dishes[i] = {"name", "image_url"}
              /\ NamesOf(rendered.dishes) = extract_dishes(response_from_groq)
              /\ ~GROQ_API_KEY => rendered.dishes = <<>>

\* C1's case: the client raised, the text of the exception holds a bullet line, and
\* suggest rendered the suggestion taken from it.
C1_Witness ==
    /\ SuggestDone
    /\ GROQ_API_KEY
    /\ MatchAt(response_from_groq, 1, MsgWentWrong)
    /\ rendered.dishes /= <<>>
    /\ rendered.dishes[1].name /= <<>>

\* C2: a lookup that fails and one that finds nothing both give an absent image URL
\* for that dish alone: the suggestions are the names extracted before the first
\* lookup, in that order, whatever the lookups answer, each with the URL of its own
\* lookup when that lookup succeeded and no URL otherwise; no lookup makes suggest
\* raise.
C2_LookupFailureIsLocal ==
    handler = "suggest" =>
        /\ pc /= "raised"
        /\ pc \in {"images", "done"} =>
              /\ Len(dishes_with_images) <= Len(dishes)
              /\ Len(lookups) = Len(dishes_with_images)
              /\ \A i \in 1..Len(dishes_with_images) :
                    /\ dishes_with_images[i].name = dishes[i]
                    /\ dishes_with_images[i].image_url =
                           IF lookups[i].kind = "ok" THEN lookups[i].small ELSE None
        /\ pc = "done" =>
              /\ rendered.dishes = dishes_with_images
              /\ NamesOf(rendered.dishes) = dishes

\* C2's case: two dishes, the first lookup failed, the second succeeded.
C2_Witness ==
    /\ SuggestDone
    /\ Len(rendered.dishes) = 2
    /\ lookups[1].kind \in {"request_exception", "malformed", "no_results"}
    /\ lookups[2].kind = "ok"
    /\ rendered.dishes[1].image_url = None
    /\ rendered.dishes[2].image_url = UrlSmall
    /\ rendered.dishes[1].name /= rendered.dishes[2].name

\* C3: no dish name holds a bullet marker anywhere, nor a <strong> or </strong>.
C3_NoMarkerAnywhere ==
    handler = "suggest" =>
        \A i \in 1..Len(dishes) :
            /\ \A k \in 1..Len(dishes[i]) : dishes[i][k] \notin BulletMarkers
            /\ ~HasTag(dishes[i])

\* C7 as stated: with an empty ingredients text suggest renders no suggestion.
C7_EmptyIngredientsEmptyResult ==
    (SuggestDone /\ arg = <<>>) => rendered.dishes = <<>>

\* C7 as amended: with an empty ingredients text suggest does not raise and renders
\* one suggestion per bullet line of the text ask_groq returned, so none exactly
\* when that text has no bullet line.
C7_EmptyIngredientsFollowLLM ==
    (handler = "suggest" /\ arg = <<>>) =>
        /\ pc /= "raised"
        /\ pc = "done" =>
              Len(rendered.dishes) = Cardinality(BulletLineStarts(response_from_groq))

\* C7's case: an empty ingredients text and a rendered suggestion.
C7_Witness ==
    /\ SuggestDone
    /\ arg = <<>>
    /\ rendered.dishes /= <<>>
    /\ rendered.ingredients = <<>>

\* C10: a request calls in sequence: suggest calls ask_groq once, then
\* get_image_for_query once per dish name, in list order and in dish mode; recipe
\* calls ask_groq once, then get_image_for_query once for the dish.
C10_CallsInSequence ==
    LET image(query) ==
            [fn |-> "get_image_for_query", text |-> query, is_ingredient |-> FALSE]
        suggest_calls ==
            <<[fn |-> "ask_groq",
               text |-> SuggestPromptHead \o arg \o SuggestPromptTail]>>
                \o [i \in 1..Len(dishes) |-> image(dishes[i])]
        recipe_calls ==
            <<[fn |-> "ask_groq",
               text |-> RecipePromptHead \o arg \o RecipePromptTail],
              image(arg)>>
    IN  /\ handler = "suggest" =>
              /\ pc = "ask" => calls = <<>>
              /\ pc = "images" =>
                    calls = SubSeq(suggest_calls, 1, 1 + Len(dishes_with_images))
              /\ pc = "done" => calls = suggest_calls
        /\ handler = "recipe" =>
              /\ pc = "ask" => calls = <<>>
              /\ pc = "image" => calls = SubSeq(recipe_calls, 1, 1)
              /\ pc = "done" => calls = recipe_calls

\* C10's case: a suggest request of two different dishes has made its three calls.
C10_Witness ==
    /\ SuggestDone
    /\ Len(dishes) = 2
    /\ dishes[1] /= dishes[2]
    /\ Len(calls) = 3
    /\ calls[3].text = dishes[2]

\* positions of the ** markers of a text, paired left to right: the first marker at
\* or after position i, then the first one after it, and so on
RECURSIVE MarkerPositions(_, _)
MarkerPositions(s, i) ==
    IF i + 1 > Len(s) THEN <<>>
    ELSE IF MatchAt(s, i, BoldMarker) THEN <<i>> \o MarkerPositions(s, i + 2)
    ELSE MarkerPositions(s, i + 1)

Balanced(s) == Len(MarkerPositions(s, 1)) % 2 = 0

\* a text of balanced markers with each **content** span wrapped in <strong> tags
WrappedSpans(s) ==
    LET m == MarkerPositions(s, 1)
        n == Len(m) \div 2
        outside(k) ==
            SubSeq(s, IF k = 0 THEN 1 ELSE m[2 * k] + 2,
                      IF k = n THEN Len(s) ELSE m[2 * k + 1] - 1)
        span(k) == StrongOpen \o SubSeq(s, m[2 * k - 1] + 2, m[2 * k] - 1) \o StrongClose
        upto[k \in 0..n] ==
            IF k = 0 THEN outside(0) ELSE upto[k - 1] \o span(k) \o outside(k)
    IN  upto[n]

\* C4: on a text of balanced ** markers the re.sub of ask_groq wraps every
\* **content** span, content with newlines included, in <strong> tags, leaves no **
\* and keeps the contents and the text outside the spans as they were, in order.
C4_BalancedSpansWrapped ==
    (handler = "format" /\ pc = "done" /\ Balanced(arg)) =>
        /\ response_from_groq = WrappedSpans(arg)
        /\ ~contains(response_from_groq, BoldMarker)

\* the positions of the vocabulary entries that hold q, whatever the case
MatchingEntries(q) ==
    {k \in 1..Len(all_possible_ingredients) :
        contains(lower(all_possible_ingredients[k]), lower(q))}

\* names are the vocabulary entries at the positions K, in vocabulary order
IsOrderedSelection(names, K) ==
    /\ Len(names) = Cardinality(K)
    /\ \A k \in K :
          names[Cardinality({j \in K : j <= k})] = all_possible_ingredients[k]

\* C5 as stated, for the queries that are not empty: the names returned for a query
\* are the vocabulary entries, in vocabulary order and duplicates kept, that hold
\* the query as received, blanks at its ends included, as a case-insensitive
\* substring.
C5_FilterByQueryAsReceived ==
    (handler = "search" /\ pc = "done" /\ arg /= <<>>) =>
        IsOrderedSelection(NamesOf(rendered), MatchingEntries(arg))

\* C5 as amended: with q the query less its leading and trailing blanks, no name is
\* returned when q is empty, and otherwise the names returned are the vocabulary
\* entries, in vocabulary order and duplicates kept, that hold q as a
\* case-insensitive substring.
C5_FilterByStrippedQuery ==
    handler = "search" =>
        /\ pc /= "raised"
        /\ pc = "done" =>
              LET q == strip(arg, Whitespace)
              IN  IF q = <<>> THEN rendered = <<>>
                  ELSE IsOrderedSelection(NamesOf(rendered), MatchingEntries(q))

\* C5's case: a query with a blank in front and an upper-case letter, answered with
\* entries that hold the letter but not the blank.
C5_Witness ==
    /\ handler = "search"
    /\ pc = "done"
    /\ Len(arg) > 1
    /\ arg[1] \in Whitespace
    /\ arg[Len(arg)] \in DOMAIN LowerOf
    /\ Len(rendered) > 1
    /\ \E i \in 1..Len(rendered) : ~contains(lower(rendered[i].name), lower(arg))

\* C6: suggest renders one entry per bullet line that survives the extraction, that
\* is, whose name is not empty after the stripping, in the order of the lines and
\* with duplicates kept.
C6_OneEntryPerSurvivingLine ==
    SuggestDone =>
        NamesOf(rendered.dishes) =
            SelectSeq(extract_dishes(response_from_groq), LAMBDA name : name /= <<>>)

\* C8: no suggestion has an empty name.
C8_NoEmptyName ==
    handler = "suggest" =>
        \A i \in 1..Len(dishes_with_images) : dishes_with_images[i].name /= <<>>

\* the names, one per line, each after a bullet marker and a space
RECURSIVE Rebullet(_, _)
Rebullet(names, marker) ==
    IF names = <<>> THEN <<>>
    ELSE IF Len(names) = 1 THEN <<marker, " ">> \o names[1]
    ELSE <<marker, " ">> \o names[1] \o <<"\n">> \o Rebullet(Tail(names), marker)

\* C9: the extraction of the re-bulleted list of extracted names gives the same
\* names.
C9_ExtractionIdempotent ==
    (handler = "suggest" /\ pc \in {"images", "done"}) =>
        \A marker \in BulletMarkers :
            extract_dishes(Rebullet(dishes, marker)) = dishes

====
